---- MODULE Spec2Model ----
(***************************************************************************)
(* Model of Frontend/js/tabs.js: the tab selector.                         *)
(*                                                                         *)
(* The page is a sequence of elements in document order.  Every element    *)
(* has a class list (a set of class names), an id and an optional data-tab *)
(* attribute.  The script captures the '.tab-button' elements once, at     *)
(* setup, and attaches one click listener to each of them.  A listener     *)
(* runs to completion (the page is single threaded), so one click is one   *)
(* step.  An uncaught exception ends the listener where it is raised and   *)
(* keeps the class changes made before it.                                 *)
(***************************************************************************)
EXTENDS Integers, Sequences, FiniteSets, TLC

\* The page: NumOthers elements that are not triggers (panels and unrelated
\* elements), followed in document order by NumTabs triggers.
NumOthers == 2

NumTabs == 2

\* At most this many of the last triggers are inserted after setup.
MaxLate == 1

Others == 1 .. NumOthers

Buttons == (NumOthers + 1) .. (NumOthers + NumTabs)

Elems == Others \cup Buttons

VARIABLES
    doc,        \* the elements that are in the document
    classList,  \* element -> set of class names
    elemId,     \* element -> id string
    dataTab,    \* element -> data-tab attribute: <<>> (absent) or <<value>>
    tabs,       \* the NodeList captured at setup (line 1)
    clicks,     \* history: the last (at most two) clicked elements, newest last
    outcome     \* how the last click ended

vars == <<doc, classList, elemId, dataTab, tabs, clicks, outcome>>

----------------------------------------------------------------------------
(* The markup the page can declare.                                        *)

\* The id strings of the page, plus one that no element carries.
IdStrings == {ToString(e) : e \in Elems} \cup {"missing"}

\* A data-tab attribute: absent, or present with a value.
AttrValues == {<<>>} \cup {<<s>> : s \in IdStrings}

\* What markup declares for a trigger: possibly active, with any data-tab.
ButtonDecls ==
    [cls : {{"tab-button"}, {"tab-button", "active"}}, tab : AttrValues]

\* What markup declares for another element: a panel, possibly visible, or
\* an unrelated element, without data-tab.
OtherDecls ==
    [cls : {{"tab-content"}, {"tab-content", "visible"}, {}}, tab : {<<>>}]

\* The markup of the page.
Markups ==
    {[e \in Elems |-> IF e \in Others THEN mo[e] ELSE mb[e]] :
        mo \in [Others -> OtherDecls], mb \in [Buttons -> ButtonDecls]}

----------------------------------------------------------------------------
(* DOM primitives.                                                         *)

\* document.querySelectorAll('.' + c): the elements of the document that
\* carry class c.
QuerySelectorAll(d, cl, c) == {e \in d : c \in cl[e]}

\* tab.getAttribute('data-tab'): the attribute, null (<<>>) when absent.
GetAttribute(dt, t) == dt[t]

\* The string a value is converted to when it is used as an id:
\* null becomes "null".
ToIdString(v) == IF v = <<>> THEN "null" ELSE v[1]

\* document.getElementById(s): the first element in document order whose
\* id is s, as a set of at most one element ({} is null).
GetElementById(d, ids, s) ==
    LET m == {e \in d : ids[e] = s}
    IN  IF m = {} THEN {} ELSE {CHOOSE e \in m : \A f \in m : e <= f}

\* classList.remove(c) on every element of S.
RemoveClass(cl, S, c) ==
    [e \in DOMAIN cl |-> IF e \in S THEN cl[e] \ {c} ELSE cl[e]]

\* classList.add(c) on every element of S.
AddClass(cl, S, c) ==
    [e \in DOMAIN cl |-> IF e \in S THEN cl[e] \cup {c} ELSE cl[e]]

----------------------------------------------------------------------------
(* The steps of the click listener, lines 5-12.                            *)

CapturedTabs_Live(d, cl, captured) == QuerySelectorAll(d, cl, "tab-button")

\* The elements that have a click listener: the NodeList captured at setup.
CapturedTabs(d, cl, captured) == captured

DeactivateTabs_Skip(cl, captured) == cl

\* line 7: tabs.forEach(t => t.classList.remove('active'))
DeactivateTabs(cl, captured) == RemoveClass(cl, captured, "active")

HideContents_Skip(cl, d) == cl

HideContents_All(cl, d) == RemoveClass(cl, d, "visible")

\* line 8: every '.tab-content' element of the document loses 'visible'
HideContents(cl, d) ==
    RemoveClass(cl, QuerySelectorAll(d, cl, "tab-content"), "visible")

ActivateTab_Overwrite(cl, t) == [cl EXCEPT ![t] = {"active"}]

\* line 11: tab.classList.add('active')
ActivateTab(cl, t) == AddClass(cl, {t}, "active")

ShowTarget_Self(cl, found, t) == AddClass(cl, {t}, "visible")

ShowTarget_Toggle(cl, found, t) ==
    [e \in DOMAIN cl |->
        IF e \notin found THEN cl[e]
        ELSE IF "visible" \in cl[e] THEN cl[e] \ {"visible"}
        ELSE cl[e] \cup {"visible"}]

\* line 12, when the lookup found an element: .classList.add('visible')
ShowTarget(cl, found, t) == AddClass(cl, found, "visible")

\* line 12: document.getElementById(target).classList reads a property of
\* null when the lookup found nothing, which raises a TypeError.
LookupOutcome(found) == IF found = {} THEN "TypeError" ELSE "ok"

\* The class lists once lines 7, 8 and 11 have run for a click on t.
BeforeLookup(cl, d, captured, t) ==
    ActivateTab(HideContents(DeactivateTabs(cl, captured), d), t)

\* The history of clicks, kept to the last two.
Record(h, e) == IF Len(h) < 2 THEN Append(h, e) ELSE <<h[2], e>>

----------------------------------------------------------------------------
(* Initial states.                                                         *)

\* The page as markup declares it, with the first k elements in the
\* document when the script runs; the script captures the triggers present.
Setup(k) ==
    \E markup \in Markups :
        /\ doc = 1 .. k
        /\ classList = [e \in Elems |-> markup[e].cls]
        /\ dataTab = [e \in Elems |-> markup[e].tab]
        /\ elemId = [e \in Elems |-> ToString(e)]
        /\ tabs = QuerySelectorAll(1 .. k, classList, "tab-button")
        /\ clicks = <<>>
        /\ outcome = "none"

\* A static page: every element is present at setup.
Init == Setup(NumOthers + NumTabs)

\* A page that grows: the triggers after the k-th element are inserted
\* later.
InitLate ==
    \E k \in (NumOthers + NumTabs - MaxLate) .. (NumOthers + NumTabs) :
        k >= NumOthers /\ Setup(k)

----------------------------------------------------------------------------
(* Actions.                                                                *)

\* A click on an element that has a listener: lines 5-12.
ClickTab(t) ==
    /\ t \in doc
    /\ t \in CapturedTabs(doc, classList, tabs)
    /\ LET target == GetAttribute(dataTab, t)
           found  == GetElementById(doc, elemId, ToIdString(target))
           c3     == BeforeLookup(classList, doc, tabs, t)
       IN  /\ classList' = IF found = {} THEN c3 ELSE ShowTarget(c3, found, t)
           /\ outcome' = LookupOutcome(found)
    /\ clicks' = Record(clicks, t)
    /\ UNCHANGED <<doc, elemId, dataTab, tabs>>

\* A click on a trigger that has no listener: nothing runs.
ClickOther(e) ==
    /\ e \in QuerySelectorAll(doc, classList, "tab-button")
    /\ e \notin CapturedTabs(doc, classList, tabs)
    /\ outcome' = "nolistener"
    /\ clicks' = Record(clicks, e)
    /\ UNCHANGED <<doc, classList, elemId, dataTab, tabs>>

\* The page appends its next element to the document after setup.
Insert ==
    /\ doc # Elems
    /\ doc' = doc \cup {Cardinality(doc) + 1}
    /\ clicks' = <<>>
    /\ outcome' = "none"
    /\ UNCHANGED <<classList, elemId, dataTab, tabs>>

Next == \E t \in Elems : ClickTab(t)

NextLate ==
    \/ \E t \in Elems : ClickTab(t)
    \/ \E e \in Elems : ClickOther(e)
    \/ Insert

Spec == Init /\ [][Next]_vars

SpecLate == InitLate /\ [][NextLate]_vars

----------------------------------------------------------------------------
(* Vocabulary of the properties.                                           *)

\* The element of the last click.
LastClicked == clicks[Len(clicks)]

\* The last step was a click whose listener ran (to its end or to the
\* exception).
AfterHandler == clicks # <<>> /\ outcome \in {"ok", "TypeError"}

\* The last two steps were clicks, on the elements a then b.
ClickedInARow(a, b) == Len(clicks) = 2 /\ clicks[1] = a /\ clicks[2] = b

Triggers == QuerySelectorAll(doc, classList, "tab-button")

Panels == QuerySelectorAll(doc, classList, "tab-content")

ActiveTriggers == {t \in Triggers : "active" \in classList[t]}

ActiveTabs == {t \in tabs : "active" \in classList[t]}

VisiblePanels == {p \in Panels : "visible" \in classList[p]}

VisibleElements == {e \in doc : "visible" \in classList[e]}

\* What the target of trigger t resolves to ({} when to nothing).
Resolve(t) == GetElementById(doc, elemId, ToIdString(GetAttribute(dataTab, t)))

\* The target of trigger t is the id of an existing panel.
HasPanelTarget(t) == Resolve(t) # {} /\ Resolve(t) \subseteq Panels

----------------------------------------------------------------------------
\* C1: after the click handler of a captured trigger T has run, T is
\* active and no other captured trigger is, whether or not the target of T
\* resolves.
C1_ClickedTabAloneActive ==
    AfterHandler => ActiveTabs = {LastClicked}

\* A click on a trigger with a dangling target, right after a click on
\* another trigger.
C1_Witness ==
    /\ AfterHandler
    /\ outcome = "TypeError"
    /\ \E a \in tabs : a # LastClicked /\ ClickedInARow(a, LastClicked)

\* C2: after the click handler of a trigger whose data-tab is the id of an
\* existing panel has run, that panel is visible and no other panel is.
C2_TargetPanelAloneVisible ==
    (AfterHandler /\ HasPanelTarget(LastClicked))
        => VisiblePanels = Resolve(LastClicked)

\* A click on a trigger with a panel target, right after a click on a
\* trigger with another panel target.
C2_Witness ==
    /\ AfterHandler
    /\ HasPanelTarget(LastClicked)
    /\ \E a \in tabs : /\ ClickedInARow(a, LastClicked)
                       /\ HasPanelTarget(a)
                       /\ Resolve(a) # Resolve(LastClicked)

\* C3 as stated: in every state, the initial one included, at most one
\* trigger is active, at most one panel is visible, and the target of an
\* active trigger is a visible panel.
C3_Original ==
    /\ Cardinality(ActiveTriggers) <= 1
    /\ Cardinality(VisiblePanels) <= 1
    /\ \A t \in ActiveTriggers :
           Resolve(t) # {} /\ Resolve(t) \subseteq VisiblePanels

\* C3 (amended): in every state a click handler leaves, at most one trigger
\* is active, at most one panel is visible, and the target of an active
\* trigger is visible whenever it is the id of an existing panel.
C3_SelectionAfterClick ==
    AfterHandler =>
        /\ Cardinality(ActiveTriggers) <= 1
        /\ Cardinality(VisiblePanels) <= 1
        /\ \A t \in ActiveTriggers :
               HasPanelTarget(t) => Resolve(t) \subseteq VisiblePanels

\* A click that shows a panel, right after a click on another trigger.
C3_Witness ==
    /\ AfterHandler
    /\ VisiblePanels # {}
    /\ \E a \in tabs : a # LastClicked /\ ClickedInARow(a, LastClicked)

\* C4 as stated: in every state exactly one trigger is active, exactly one
\* panel is visible, and that panel is the target of the active trigger.
C4_Original ==
    /\ Cardinality(ActiveTriggers) = 1
    /\ Cardinality(VisiblePanels) = 1
    /\ \A t \in ActiveTriggers : Resolve(t) = VisiblePanels

\* C4 (amended): in every state left by the click handler of a trigger
\* whose target is the id of an existing panel, exactly one trigger is
\* active, exactly one panel is visible, and that panel is the target of
\* the active trigger.
C4_ExactlyOneAfterValidClick ==
    (AfterHandler /\ HasPanelTarget(LastClicked)) =>
        /\ Cardinality(ActiveTriggers) = 1
        /\ Cardinality(VisiblePanels) = 1
        /\ \A t \in ActiveTriggers : Resolve(t) = VisiblePanels

\* A click on a trigger with a panel target, right after a click on a
\* trigger whose target resolves to nothing.
C4_Witness ==
    /\ AfterHandler
    /\ HasPanelTarget(LastClicked)
    /\ \E a \in tabs : ClickedInARow(a, LastClicked) /\ Resolve(a) = {}

\* C5: after a click on a trigger whose target does not resolve to an
\* existing panel, the active triggers are exactly the clicked one and no
\* panel is visible, whatever was active or visible before.
C5_DanglingLeavesTabActiveNoPanel ==
    (AfterHandler /\ Resolve(LastClicked) \cap Panels = {}) =>
        /\ ActiveTriggers = {LastClicked}
        /\ VisiblePanels = {}

\* A click on a trigger whose target resolves to nothing, right after a
\* click on another trigger that showed a panel.
C5_Witness ==
    /\ AfterHandler
    /\ Resolve(LastClicked) = {}
    /\ \E a \in tabs : /\ a # LastClicked
                       /\ ClickedInARow(a, LastClicked)
                       /\ HasPanelTarget(a)

\* C6 as stated: a click on a trigger whose target resolves to no element
\* finishes normally, without raising an error.
C6_DanglingFailsSilently ==
    (AfterHandler /\ Resolve(LastClicked) = {}) => outcome = "ok"

\* C7: a click on the trigger that was clicked just before changes no
\* class list: two clicks in a row on T leave what one click on T leaves.
C7_ClickIdempotent ==
    [][\A t \in tabs :
          (clicks # <<>> /\ LastClicked = t /\ ClickTab(t))
              => classList' = classList]_vars

\* A trigger has been clicked twice in a row.
C7_Witness ==
    /\ AfterHandler
    /\ ClickedInARow(LastClicked, LastClicked)

\* C8: the elements that respond to clicks are the triggers present at
\* setup: the captured set never changes, a click on a captured trigger
\* runs its listener, and a click on a trigger inserted afterwards runs no
\* listener and changes no class list.
C8_LateTriggerIgnored ==
    [][/\ tabs' = tabs
       /\ \A e \in tabs :
              clicks' = Record(clicks, e)
                  => (outcome' \in {"ok", "TypeError"}
                        /\ "active" \in classList'[e])
       /\ \A e \in Triggers \ tabs :
              clicks' = Record(clicks, e)
                  => (classList' = classList /\ outcome' = "nolistener")]_vars

\* A click on a trigger that was inserted after setup, right after a click
\* on a captured trigger that made a panel visible.
C8_Witness ==
    /\ clicks # <<>>
    /\ LastClicked \in Triggers \ tabs
    /\ \E a \in tabs : ClickedInARow(a, LastClicked) /\ HasPanelTarget(a)
    /\ ActiveTabs # {}
    /\ VisiblePanels # {}

\* The parts of the page a click never changes: the elements of the
\* document, their ids, their data-tab attributes, the captured triggers,
\* and every class but 'active' and 'visible'.
StructureUnchanged ==
    /\ doc' = doc
    /\ elemId' = elemId
    /\ dataTab' = dataTab
    /\ tabs' = tabs
    /\ \A e \in Elems : classList'[e] \ {"active", "visible"}
                            = classList[e] \ {"active", "visible"}

\* Element e differs in class c between the two states of a step.
FlagChanged(e, c) == (c \in classList[e]) # (c \in classList'[e])

\* C9 as stated: a step changes only the active flag of triggers and the
\* visible flag of panels.
C9_Original ==
    [][/\ StructureUnchanged
       /\ \A e \in Elems :
              /\ FlagChanged(e, "active") => e \in Triggers
              /\ FlagChanged(e, "visible") => e \in Panels]_vars

\* C9 (amended): a step changes only the active flag of triggers and the
\* visible flag of panels and of the element the clicked trigger's target
\* id resolves to; the elements, ids, targets and other classes stay.
C9_OnlyFlagsChange ==
    [][/\ StructureUnchanged
       /\ \A e \in Elems :
              /\ FlagChanged(e, "active") => e \in Triggers
              /\ FlagChanged(e, "visible") =>
                     \/ e \in Panels
                     \/ \E t \in tabs : /\ clicks' = Record(clicks, t)
                                        /\ e \in Resolve(t)]_vars

\* A click has changed which trigger is active and which panel is visible.
C9_Witness ==
    /\ AfterHandler
    /\ \E a \in tabs : /\ a # LastClicked
                       /\ ClickedInARow(a, LastClicked)
                       /\ HasPanelTarget(a)
                       /\ HasPanelTarget(LastClicked)
                       /\ Resolve(a) # Resolve(LastClicked)

\* C10: the element a click makes visible is found by id alone, and a
\* click clears only the elements with the panel class: an element without
\* the panel class that a trigger's target resolves to is visible after the
\* click on that trigger, and no later click removes its visible flag, so
\* after a click on such a trigger and then on a trigger with a panel
\* target, two elements are visible.
C10_NonPanelTargetStaysVisible ==
    /\ [](AfterHandler => \A e \in Resolve(LastClicked) :
                              "visible" \in classList[e])
    /\ [][\A e \in doc \ Panels :
              "visible" \in classList[e] => "visible" \in classList'[e]]_vars
    /\ [](\A a \in tabs :
             (/\ AfterHandler
              /\ ClickedInARow(a, LastClicked)
              /\ Resolve(a) # {}
              /\ Resolve(a) \cap Panels = {}
              /\ HasPanelTarget(LastClicked))
                 => (/\ Resolve(a) \cup Resolve(LastClicked)
                            \subseteq VisibleElements
                     /\ Cardinality(VisibleElements) >= 2))

\* Two elements are visible at once: a click on a trigger whose target is
\* an element without the panel class, then a click on a trigger with a
\* panel target.
C10_Witness ==
    /\ AfterHandler
    /\ HasPanelTarget(LastClicked)
    /\ \E a \in tabs :
           /\ ClickedInARow(a, LastClicked)
           /\ Resolve(a) # {}
           /\ Resolve(a) \cap Panels = {}
           /\ Resolve(a) \cup Resolve(LastClicked) \subseteq VisibleElements

====
